---- MODULE Spec2Model ----
(***************************************************************************)
(* A model of pons' contract-ABI layer (src/pons/_contract_abi.py) and of  *)
(* its test RPC server (src/pons/_test_rpc_provider.py).                   *)
(*                                                                         *)
(* Python values are represented as follows.                               *)
(*   Optional[X]      a sequence of length 0 (None) or 1 (the value)       *)
(*   dict             a sequence of <<key, value>> pairs in insertion      *)
(*                    order with distinct keys                             *)
(*   bytes            a sequence of byte values                            *)
(*   Type             its canonical name, a string                         *)
(*   a raised error   a record [kind, msg, ...] in the variable outcome    *)
(* The codec of pons._abi_types is not part of the modelled file; it is    *)
(* modelled with a word of one byte and a hash of five bytes.              *)
(***************************************************************************)
EXTENDS Integers, Sequences, FiniteSets, TLC

VARIABLES
    phase,      \* position in the life of the objects under study
    input,      \* the arguments of the last operation
    abi,        \* Optional[ContractABI]: the object built by from_json
    event,      \* Optional[Event]: the object built by Event.__init__
    outcome,    \* what the last operation returned or raised
    trace,      \* the collaborator calls the last operation made, in order
    method,     \* Optional[Method]: the object built by Method.__init__ or from_json
    other,      \* Optional[Method]: a second, independently built Method
    cache,      \* the selector cached on method and on other, None before a read
    handle      \* the ServerHandle, its server task and the caller of shutdown

vars == <<phase, input, abi, event, outcome, trace, method, other, cache, handle>>

(***************************************************************************)
(* Bounds of the model.                                                    *)
(***************************************************************************)
MaxEntries == 3     \* longest JSON ABI given to ContractABI.from_json
MaxData == 5        \* longest error_data given to resolve_error
MaxArgs == 2        \* most positional arguments given to Event.__call__
MaxTopics == 4      \* most topics of a log entry
MaxLogData == 2     \* longest data section of a log entry
MaxOutput == 2      \* longest output given to Method.decode_output

\* len(error_data) < 4 ; error_data[:4], error_data[4:]
SelectorLen == 4

\* The byte values error_data is drawn from.
Bytes == {0, 1}

None == <<>>
Some(x) == <<x>>

(***************************************************************************)
(* dict helpers                                                            *)
(***************************************************************************)
Keys(d) == {d[i][1] : i \in DOMAIN d}

KeySeq(d) == [i \in DOMAIN d |-> d[i][1]]

Values(d) == [i \in DOMAIN d |-> d[i][2]]

Lookup(d, k) == d[CHOOSE i \in DOMAIN d : d[i][1] = k][2]

\* d[k] = v : an existing key keeps its position and takes the new value
DictSet(d, k, v) ==
    IF k \in Keys(d)
    THEN [i \in DOMAIN d |-> IF d[i][1] = k THEN <<k, v>> ELSE d[i]]
    ELSE Append(d, <<k, v>>)

RECURSIVE DictFromPairs(_)
\* {k: v for k, v in pairs}
DictFromPairs(pairs) ==
    IF pairs = <<>> THEN <<>>
    ELSE LET n == Len(pairs)
         IN  DictSet(DictFromPairs(SubSeq(pairs, 1, n - 1)), pairs[n][1], pairs[n][2])

\* seq[lo:hi] with the clamping of Python, lo and hi counted from 0
PySlice(seq, lo, hi) ==
    LET top == IF hi > Len(seq) THEN Len(seq) ELSE hi
    IN  IF lo >= top THEN <<>> ELSE [i \in 1..(top - lo) |-> seq[lo + i]]

\* keyword.iskeyword, for the keywords the model's names use
Keywords == {"from", "in", "class"}

make_name_safe(name) == IF name \in Keywords THEN name \o "_" ELSE name

(***************************************************************************)
(* The codec (pons._abi_types)                                             *)
(***************************************************************************)
RECURSIVE JoinComma(_)
JoinComma(strs) ==
    IF strs = <<>> THEN ""
    ELSE IF Len(strs) = 1 THEN strs[1]
    ELSE strs[1] \o "," \o JoinComma(Tail(strs))

\* keccak: a fixed function from strings to five bytes.  Two of the
\* listed strings differ only in the last byte of their hash, so that their
\* four-byte prefixes coincide.
keccak(s) ==
    CASE s = "Panic(uint256)" -> <<0, 0, 0, 1, 0>>
      [] s = "Error(string)"  -> <<0, 0, 1, 0, 0>>
      [] s = "T(uint256)"     -> <<0, 1, 0, 0, 0>>
      [] s = "U(bool)"        -> <<0, 1, 0, 0, 1>>
      [] s = "T(address)"     -> <<0, 1, 1, 0, 0>>
      [] OTHER                -> <<1, Len(s) % 2, (Len(s) \div 2) % 2, (Len(s) \div 4) % 2, 1>>

RECURSIVE DecodeFrom(_, _)
\* decode_args(types, data): a uint256 or an address is one word, a bool is
\* one word that must be 0 or 1, a string is a length word followed by that
\* many bytes.  Bytes after the last value are ignored.
DecodeFrom(types, data) ==
    IF types = <<>> THEN [ok |-> TRUE, values |-> <<>>]
    ELSE IF data = <<>> THEN [ok |-> FALSE, values |-> <<>>]
    ELSE LET tp   == Head(types)
             w    == Head(data)
             used == IF tp = "string" THEN 1 + w ELSE 1
             good == /\ used <= Len(data)
                     /\ tp = "bool" => w \in {0, 1}
             val  == IF tp = "string" THEN <<"str", SubSeq(data, 2, used)>>
                     ELSE IF tp = "bool" THEN <<"bool", w>>
                     ELSE IF tp = "address" THEN <<"addr", w>>
                     ELSE <<"int", w>>
         IN  IF ~good THEN [ok |-> FALSE, values |-> <<>>]
             ELSE LET rest == DecodeFrom(Tail(types), SubSeq(data, used + 1, Len(data)))
                  IN  [ok |-> rest.ok,
                       values |-> IF rest.ok THEN <<val>> \o rest.values ELSE <<>>]

decode_args(types, data) == DecodeFrom(types, data)

\* dispatch_types(entries): a list of types when every name is empty, a dict
\* from name to type when every name is given.
dispatch_types(entries) ==
    LET names == {entries[i].name : i \in DOMAIN entries}
    IN  IF entries # <<>> /\ names = {""}
        THEN [err |-> "", named |-> FALSE,
              items |-> [i \in DOMAIN entries |-> entries[i].type]]
        ELSE IF "" \in names
        THEN [err |-> "Arguments must be either all named or all unnamed",
              named |-> FALSE, items |-> <<>>]
        ELSE IF Cardinality(names) # Len(entries)
        THEN [err |-> "All ABI entry names must be unique",
              named |-> FALSE, items |-> <<>>]
        ELSE [err |-> "", named |-> TRUE,
              items |-> [i \in DOMAIN entries |-> <<entries[i].name, entries[i].type>>]]

\* a bare list of types, as in Constructor(inputs=[])
TypeList(types) == [err |-> "", named |-> FALSE, items |-> types]

\* a dict of named types, as in dict(code=abi.uint(256))
TypeDict(pairs) == [err |-> "", named |-> TRUE, items |-> pairs]

(***************************************************************************)
(* Signature                                                               *)
(***************************************************************************)
\* Signature.__init__
Signature(parameters) ==
    IF parameters.named
    THEN [names |-> [i \in DOMAIN parameters.items |->
                        make_name_safe(parameters.items[i][1])],
          types |-> [i \in DOMAIN parameters.items |-> parameters.items[i][2]],
          named_parameters |-> TRUE]
    ELSE [names |-> [i \in DOMAIN parameters.items |-> "_" \o ToString(i - 1)],
          types |-> parameters.items,
          named_parameters |-> FALSE]

\* inspect.Signature refuses two parameters of one name, which happens when
\* make_name_safe maps two names of a mapping to the same name
Signature_raises(parameters) ==
    /\ parameters.named
    /\ \E i, j \in DOMAIN parameters.items :
          /\ i # j
          /\ make_name_safe(parameters.items[i][1]) = make_name_safe(parameters.items[j][1])

\* Signature.canonical_form
canonical_form(types) == "(" \o JoinComma(types) \o ")"

\* Signature.decode_into_dict
decode_into_dict(sig, value_bytes) ==
    LET decoded == decode_args(sig.types, value_bytes)
    IN  [ok |-> decoded.ok,
         value |-> IF decoded.ok
                   THEN [i \in DOMAIN sig.names |-> <<sig.names[i], decoded.values[i]>>]
                   ELSE <<>>]

(***************************************************************************)
(* Constructor, Fallback, Receive                                          *)
(***************************************************************************)
Ok(v) == [err |-> "", value |-> v]

Fail(msg) == [err |-> msg, value |-> <<>>]

\* encode_args(*zip(types, values)): one word for each value
encode_args(types, values) ==
    LET n == IF Len(types) < Len(values) THEN Len(types) ELSE Len(values)
    IN  [i \in 1..n |-> values[i] % 2]

\* a call that leaves a parameter unbound accepted
MissingArgumentNever(signature, args, kwargs) == FALSE

\* inspect.Signature.bind: a parameter without a value
MissingArgument(signature, args, kwargs) ==
    \E i \in DOMAIN signature : i > Len(args) /\ signature[i] \notin Keys(kwargs)

\* inspect.Signature.bind: every parameter has to be bound; the parameters
\* of a signature built from a list of types are positional only
bind(sig, args, kwargs) ==
    IF Len(args) > Len(sig.names)
    THEN Fail("too many positional arguments")
    ELSE IF /\ sig.named_parameters
            /\ \E k \in Keys(kwargs) : \E i \in 1..Len(args) : sig.names[i] = k
    THEN Fail("multiple values for argument")
    ELSE IF /\ ~sig.named_parameters
            /\ \E k \in Keys(kwargs) : \E i \in DOMAIN sig.names : sig.names[i] = k
    THEN Fail("parameter is positional only, but was passed as a keyword")
    ELSE IF MissingArgument(sig.names, args, kwargs)
    THEN Fail("missing a required argument")
    ELSE IF \E k \in Keys(kwargs) : \A i \in DOMAIN sig.names : sig.names[i] # k
    THEN Fail("got an unexpected keyword argument")
    ELSE Ok([i \in 1..Len(args) |-> <<sig.names[i], args[i]>>] \o kwargs)

RECURSIVE BoundArguments_args(_, _)
\* BoundArguments.args: the values of the parameters in declaration order,
\* up to the first parameter without a value
BoundArguments_args(names, arguments) ==
    IF names = <<>> \/ Head(names) \notin Keys(arguments) THEN <<>>
    ELSE <<Lookup(arguments, Head(names))>> \o BoundArguments_args(Tail(names), arguments)

\* Signature.encode ; handed is the value list given to the codec
Signature_encode(sig, args, kwargs) ==
    LET bound_args == bind(sig, args, kwargs)
    IN  IF bound_args.err # ""
        THEN [kind |-> "TypeError", msg |-> bound_args.err, value |-> <<>>, handed |-> None]
        ELSE LET values == BoundArguments_args(sig.names, bound_args.value)
             IN  [kind |-> "ok", msg |-> "", value |-> encode_args(sig.types, values),
                  handed |-> Some(values)]

\* Constructor.__init__
Constructor(inputs, payable) == [inputs |-> Signature(inputs), payable |-> payable]

\* Constructor.from_json
Constructor_from_json(method_entry) ==
    IF method_entry.type # "constructor"
    THEN Fail("Constructor object must be created from a JSON entry with type=constructor")
    ELSE IF "name" \in method_entry.keys
    THEN Fail("Constructor JSON entry cannot have a name")
    ELSE IF "outputs" \in method_entry.keys /\ method_entry.outputs # <<>>
    THEN Fail("Constructor JSON entry cannot have non-empty outputs")
    ELSE IF method_entry.stateMutability \notin {"nonpayable", "payable"}
    THEN Fail("Constructor JSON entry state mutability must be nonpayable or payable")
    ELSE LET inputs == dispatch_types(IF "inputs" \in method_entry.keys
                                      THEN method_entry.inputs ELSE <<>>)
         IN  IF inputs.err # "" THEN Fail(inputs.err)
             ELSE Ok(Constructor(inputs, method_entry.stateMutability = "payable"))

\* Fallback.from_json and Fallback.__init__
Fallback_from_json(method_entry) ==
    IF method_entry.type # "fallback"
    THEN Fail("Fallback object must be created from a JSON entry with type=fallback")
    ELSE IF method_entry.stateMutability \notin {"nonpayable", "payable"}
    THEN Fail("Fallback method JSON entry state mutability must be nonpayable or payable")
    ELSE Ok([payable |-> method_entry.stateMutability = "payable"])

\* Receive.from_json and Receive.__init__
Receive_from_json(method_entry) ==
    IF method_entry.type # "receive"
    THEN Fail("Receive object must be created from a JSON entry with type=fallback")
    ELSE IF method_entry.stateMutability \notin {"nonpayable", "payable"}
    THEN Fail("Receive method JSON entry state mutability must be nonpayable or payable")
    ELSE Ok([payable |-> method_entry.stateMutability = "payable"])

(***************************************************************************)
(* Mutability and Method                                                   *)
(***************************************************************************)
\* Mutability.from_json
Mutability_from_json(entry) ==
    IF entry \notin {"pure", "view", "nonpayable", "payable"}
    THEN Fail("Unknown mutability identifier: " \o entry)
    ELSE Ok(entry)

\* Mutability.payable
Mutability_payable(m) == m = "payable"

\* mutating taken to mean that no value can be sent
Mutability_mutating_nonpayable_only(m) == m = "nonpayable"

\* Mutability.mutating
Mutability_mutating(m) == m = "payable" \/ m = "nonpayable"

\* Method.__init__ ; outputs is None, [a Type] or a list/dict of types
Method(name, mutability, inputs, outputs) ==
    [name |-> name,
     inputs |-> Signature(inputs),
     mutability |-> mutability,
     payable |-> Mutability_payable(mutability),
     mutating |-> Mutability_mutating(mutability),
     single_output |-> outputs.kind = "type",
     outputs |-> Signature(IF outputs.kind = "none" THEN TypeList(<<>>)
                           ELSE IF outputs.kind = "type" THEN TypeList(<<outputs.type>>)
                           ELSE outputs.params)]

\* Method.from_json
Method_from_json(method_entry) ==
    IF method_entry.type # "function"
    THEN Fail("Method object must be created from a JSON entry with type=function")
    ELSE LET name       == method_entry.name
             inputs     == dispatch_types(method_entry.inputs)
             mutability == Mutability_from_json(method_entry.stateMutability)
             outs       == method_entry.outputs
             outputs    ==
                 IF "outputs" \notin method_entry.keys THEN TypeList(<<>>)
                 ELSE IF \A i \in DOMAIN outs : outs[i].name = ""
                 THEN TypeList([i \in DOMAIN outs |-> outs[i].type])
                 ELSE dispatch_types(outs)
         IN  IF inputs.err # "" THEN Fail(inputs.err)
             ELSE IF mutability.err # "" THEN Fail(mutability.err)
             ELSE IF outputs.err # "" THEN Fail(outputs.err)
             ELSE IF Signature_raises(inputs) \/ Signature_raises(outputs)
             THEN Fail("duplicate parameter name")
             ELSE Ok(Method(name, mutability.value, inputs,
                            [kind |-> "params", params |-> outputs]))

\* a selector that hashes the mutability with the name and the input types
Method_selector_with_mutability(m) ==
    PySlice(keccak(m.name \o canonical_form(m.inputs.types) \o m.mutability), 0, SelectorLen)

\* Method.selector
Method_selector(m) ==
    PySlice(keccak(m.name \o canonical_form(m.inputs.types)), 0, SelectorLen)

\* the unwrapping done for every output list of one unnamed type
UnwrapsAnySingleUnnamed(m) == ~m.outputs.named_parameters /\ Len(m.outputs.types) = 1

\* if self._single_output
Unwraps(m) == m.single_output

\* Method.decode_output ; unwrapped tells a bare value from a tuple
Method_decode_output(m, output_bytes) ==
    LET results == decode_args(m.outputs.types, output_bytes)
    IN  IF ~results.ok
        THEN [kind |-> "DecodeError", unwrapped |-> FALSE, value |-> <<>>]
        ELSE IF Unwraps(m)
        THEN [kind |-> "ok", unwrapped |-> TRUE, value |-> results.values[1]]
        ELSE [kind |-> "ok", unwrapped |-> FALSE, value |-> results.values]

(***************************************************************************)
(* Either, EventSignature, Event                                           *)
(***************************************************************************)
\* a plain value given for an event field
Plain(v) == [either |-> FALSE, items |-> <<v>>]

\* Either.__init__
Either(items) == [either |-> TRUE, items |-> items]

\* Type.encode_to_topic: a value type gives its value padded to the width
\* of a hash, a reference type gives the hash of its contents; a value of
\* the wrong kind is refused.
topic_encodable(tp, val) ==
    \/ tp = "uint256" /\ val[1] = "int"
    \/ tp = "address" /\ val[1] = "addr"
    \/ tp = "string" /\ val[1] = "str"

encode_to_topic(tp, val) ==
    IF tp = "string"
    THEN <<1, 1, Len(val[2]) % 2, (IF val[2] = <<>> THEN 0 ELSE val[2][1]) % 2, 0>>
    ELSE <<0, 0, 0, 0, val[2]>>

\* Type.decode_from_topic: a value type is read back, a reference type was
\* hashed and gives None
decode_from_topic(tp, topic) ==
    IF tp = "string" THEN None
    ELSE Some(<<IF tp = "address" THEN "addr" ELSE "int", topic[Len(topic)]>>)

\* EventSignature.__init__
EventSignature(parameters, indexed) ==
    LET params == DictFromPairs([i \in DOMAIN parameters |->
                     <<make_name_safe(parameters[i][1]), parameters[i][2]>>])
        idx    == {make_name_safe(name) : name \in indexed}
    IN  [signature |-> SelectSeq(KeySeq(params), LAMBDA name : name \in idx),
         types |-> params,
         types_nonindexed |-> SelectSeq(params, LAMBDA p : p[1] \notin idx),
         indexed |-> idx]

\* inspect.Signature.bind_partial over positional-or-keyword parameters:
\* positional values fill the parameters from the left, keyword values fill
\* by name; no parameter has to be bound
bind_partial(signature, args, kwargs) ==
    IF Len(args) > Len(signature)
    THEN Fail("too many positional arguments")
    ELSE IF \E k \in Keys(kwargs) : \E i \in 1..Len(args) : signature[i] = k
    THEN Fail("multiple values for argument")
    ELSE IF \E k \in Keys(kwargs) : \A i \in DOMAIN signature : signature[i] # k
    THEN Fail("got an unexpected keyword argument")
    ELSE Ok([i \in 1..Len(args) |-> <<signature[i], args[i]>>] \o kwargs)

\* the loop body of encode_to_topics for one parameter
EncodedTopic(fields, arguments, param_name) ==
    IF param_name \notin Keys(arguments) THEN None
    ELSE LET bound_val == Lookup(arguments, param_name)
             tp        == Lookup(fields.types, param_name)
         IN  Some([i \in DOMAIN bound_val.items |-> encode_to_topic(tp, bound_val.items[i])])

\* the topics with the trailing None entries left in
TrimNoneSkipped(topics) == topics

RECURSIVE TrimNone(_)
\* while encoded_topics and encoded_topics[-1] is None: encoded_topics.pop()
TrimNone(topics) ==
    IF topics # <<>> /\ topics[Len(topics)] = None
    THEN TrimNone(SubSeq(topics, 1, Len(topics) - 1))
    ELSE topics

\* the list built when an unbound parameter adds no entry
encoded_topics_bound_only(fields, arguments) ==
    SelectSeq([k \in DOMAIN fields.signature |->
                  EncodedTopic(fields, arguments, fields.signature[k])],
              LAMBDA t : t # None)

\* EventSignature.encode_to_topics, the list built by the for loop
encoded_topics_untrimmed(fields, arguments) ==
    [k \in DOMAIN fields.signature |-> EncodedTopic(fields, arguments, fields.signature[k])]

\* EventSignature.encode_to_topics
encode_to_topics(fields, args, kwargs) ==
    LET bound_args == bind_partial(fields.signature, args, kwargs)
    IN  IF bound_args.err # "" THEN [kind |-> "TypeError", msg |-> bound_args.err, value |-> <<>>]
        ELSE IF \E i \in DOMAIN bound_args.value :
                  \E j \in DOMAIN bound_args.value[i][2].items :
                      ~topic_encodable(Lookup(fields.types, bound_args.value[i][1]),
                                       bound_args.value[i][2].items[j])
        THEN [kind |-> "EncodeError", msg |-> "value does not fit the type", value |-> <<>>]
        ELSE [kind |-> "ok", msg |-> "",
              value |-> TrimNone(encoded_topics_untrimmed(fields, bound_args.value))]

\* the test with only too few topics refused
TopicCountTooSmall(fields, topics) == Len(topics) < Cardinality(fields.indexed)

\* len(topics) != len(self._indexed)
TopicCountMismatch(fields, topics) == Len(topics) # Cardinality(fields.indexed)

\* EventSignature.decode_log_entry ; the calls made to the codec are
\* returned with the result
EventSignature_decode_log_entry(fields, topics, data) ==
    IF TopicCountMismatch(fields, topics)
    THEN [kind |-> "ValueError",
          msg |-> "The number of topics in the log entry (" \o ToString(Len(topics))
                  \o ") does not match the number of indexed fields in the event ("
                  \o ToString(Cardinality(fields.indexed)) \o ")",
          value |-> <<>>, calls |-> <<>>]
    ELSE LET n == IF Len(topics) < Len(fields.signature)
                  THEN Len(topics) ELSE Len(fields.signature)
             decoded_topics == [k \in 1..n |->
                 <<fields.signature[k],
                   decode_from_topic(Lookup(fields.types, fields.signature[k]), topics[k])>>]
             decoded_data_tuple == decode_args(Values(fields.types_nonindexed), data)
             calls == [k \in 1..n |-> "decode_from_topic"] \o <<"decode_args">>
         IN  IF ~decoded_data_tuple.ok
             THEN [kind |-> "DecodeError", msg |-> "", value |-> <<>>, calls |-> calls]
             ELSE LET decoded_data == [j \in DOMAIN fields.types_nonindexed |->
                          <<fields.types_nonindexed[j][1], Some(decoded_data_tuple.values[j])>>]
                  IN  [kind |-> "ok", msg |-> "",
                       value |-> [i \in DOMAIN fields.types |->
                           LET name == fields.types[i][1]
                           IN  <<name, IF name \in Keys(decoded_topics)
                                       THEN Lookup(decoded_topics, name)
                                       ELSE Lookup(decoded_data, name)>>],
                       calls |-> calls]

\* EventSignature.canonical_form
EventSignature_canonical_form(fields) == "(" \o JoinComma(Values(fields.types)) \o ")"

\* the cap with the test on anonymous left out
TooManyIndexedAnyEvent(indexed, anonymous) == Cardinality(indexed) > 4

\* the two tests at the head of Event.__init__
TooManyIndexed(indexed, anonymous) ==
    \/ anonymous /\ Cardinality(indexed) > 4
    \/ ~anonymous /\ Cardinality(indexed) > 3

\* Event.__init__
Event(name, fields, indexed, anonymous) ==
    IF TooManyIndexed(indexed, anonymous)
    THEN Fail(IF anonymous THEN "Anonymous events can have at most 4 indexed fields"
              ELSE "Non-anonymous events can have at most 3 indexed fields")
    ELSE Ok([name |-> name,
             indexed |-> indexed,
             fields |-> EventSignature(fields, indexed),
             anonymous |-> anonymous])

\* Event.from_json
Event_from_json(event_entry) ==
    IF event_entry.type # "event"
    THEN Fail("Event object must be created from a JSON entry with type=event")
    ELSE LET name   == event_entry.name
             fields == dispatch_types(event_entry.inputs)
             indexed == {event_entry.inputs[i].name :
                            i \in {j \in DOMAIN event_entry.inputs : event_entry.inputs[j].indexed}}
         IN  IF fields.err # "" THEN Fail(fields.err)
             ELSE IF ~fields.named THEN Fail("Event fields must be named")
             ELSE Event(name, fields.items, indexed, event_entry.anonymous)

\* Event._topic
Event_topic(ev) == keccak(ev.name \o EventSignature_canonical_form(ev.fields))

\* Event.__call__
Event_call(ev, args, kwargs) ==
    LET encoded_topics == encode_to_topics(ev.fields, args, kwargs)
    IN  IF encoded_topics.kind # "ok" THEN encoded_topics
        ELSE [kind |-> "ok", msg |-> "",
              value |-> (IF ~ev.anonymous THEN <<Some(<<Event_topic(ev)>>)>> ELSE <<>>)
                        \o encoded_topics.value]

\* topics[0] != self._topic ; topics[0] of an empty tuple raises IndexError
\* before the comparison is made
FirstTopicDiffers(ev, topics) == topics[1] # Event_topic(ev)

\* Event.decode_log_entry ; handed is the topic list given to
\* EventSignature.decode_log_entry, None when the call is not made
Event_decode_log_entry(ev, topics, data) ==
    IF ~ev.anonymous /\ topics = <<>>
    THEN [kind |-> "IndexError", msg |-> "tuple index out of range",
          value |-> <<>>, calls |-> <<>>, handed |-> None]
    ELSE IF ~ev.anonymous /\ FirstTopicDiffers(ev, topics)
    THEN [kind |-> "ValueError", msg |-> "This log entry belongs to a different event",
          value |-> <<>>, calls |-> <<>>, handed |-> None]
    ELSE LET rest == IF ~ev.anonymous THEN PySlice(topics, 1, Len(topics)) ELSE topics
             r    == EventSignature_decode_log_entry(ev.fields, rest, data)
         IN  [kind |-> r.kind, msg |-> r.msg, value |-> r.value, calls |-> r.calls,
              handed |-> Some(rest)]

(***************************************************************************)
(* Error                                                                   *)
(***************************************************************************)
\* Error.__init__
Error(name, fields) == [name |-> name, fields |-> Signature(fields)]

\* Error.from_json
Error_from_json(error_entry) ==
    IF error_entry.type # "error"
    THEN Fail("Error object must be created from a JSON entry with type=error")
    ELSE LET name   == error_entry.name
             fields == dispatch_types(error_entry.inputs)
         IN  IF fields.err # "" THEN Fail(fields.err)
             ELSE IF ~fields.named THEN Fail("Error fields must be named")
             ELSE Ok(Error(name, fields))

\* Error.selector
Error_selector(error) ==
    PySlice(keccak(error.name \o canonical_form(error.fields.types)), 0, SelectorLen)

\* Error.decode_fields
decode_fields(error, data_bytes) == decode_into_dict(error.fields, data_bytes)

PANIC_ERROR == Error("Panic", TypeDict(<<<<"code", "uint256">>>>))

LEGACY_ERROR == Error("Error", TypeDict(<<<<"message", "string">>>>))

(***************************************************************************)
(* ContractABI                                                             *)
(***************************************************************************)
RECURSIVE ErrorBySelectorFirstWins(_)
\* the index as it would be if an already present selector were kept
ErrorBySelectorFirstWins(errors) ==
    IF errors = <<>> THEN <<>>
    ELSE LET n    == Len(errors)
             d    == ErrorBySelectorFirstWins(SubSeq(errors, 1, n - 1))
             sel  == Error_selector(errors[n])
         IN  IF sel \in Keys(d) THEN d ELSE Append(d, <<sel, errors[n]>>)

\* the built-in errors with the legacy error left out
BuiltinErrorsPanicOnly == <<PANIC_ERROR>>

\* chain([PANIC_ERROR, LEGACY_ERROR], ...)
BuiltinErrors == <<PANIC_ERROR, LEGACY_ERROR>>

\* {error.selector: error for error in errors}
ErrorBySelector(errors) ==
    DictFromPairs([i \in DOMAIN errors |-> <<Error_selector(errors[i]), errors[i]>>])

\* Methods({x.name: x for x in xs})
Methods(xs) == DictFromPairs([i \in DOMAIN xs |-> <<xs[i].name, xs[i]>>])

\* ContractABI.__init__ ; constructor, fallback and receive are Optional
ContractABI(constructor, fallback, receive, methods, events, errors) ==
    LET error == Methods(errors)
    IN  [constructor |-> IF constructor = None
                         THEN Constructor(TypeList(<<>>), FALSE)
                         ELSE constructor[1],
         fallback |-> fallback,
         receive |-> receive,
         method |-> Methods(methods),
         event |-> Methods(events),
         error |-> error,
         error_by_selector |-> ErrorBySelector(BuiltinErrors \o Values(error))]

\* the local variables of from_json before the loop
FromJsonStart ==
    [constructor |-> None, fallback |-> None, receive |-> None,
     methods |-> <<>>, events |-> <<>>, errors |-> <<>>]

\* the test with the constructor never taken as present
ConstructorSeenNever(acc) == FALSE

\* if constructor:
ConstructorSeen(acc) == acc.constructor # None

\* the test with no name ever taken as declared
NameDeclaredNever(declared, name) == FALSE

\* if entry["name"] in methods: (and the same for events and errors)
NameDeclared(declared, name) == name \in Keys(declared)

\* an entry of an unknown type skipped
UnknownEntryTypeSkipped(acc, entry) == Ok(acc)

\* else: raise ValueError(f"Unknown ABI entry type: {entry['type']}")
UnknownEntryType(acc, entry) == Fail("Unknown ABI entry type: " \o entry.type)

\* one iteration of the loop of from_json: the locals after it, or the error
FromJsonEntry(acc, entry) ==
    CASE entry.type = "constructor" ->
            IF ConstructorSeen(acc)
            THEN Fail("JSON ABI contains more than one constructor declarations")
            ELSE LET c == Constructor_from_json(entry)
                 IN  IF c.err # "" THEN c
                     ELSE Ok([acc EXCEPT !.constructor = Some(c.value)])
      [] entry.type = "function" ->
            IF NameDeclared(acc.methods, entry.name)
            THEN Fail("JSON ABI contains more than one declarations of " \o entry.name)
            ELSE LET m == Method_from_json(entry)
                 IN  IF m.err # "" THEN m
                     ELSE Ok([acc EXCEPT !.methods = DictSet(@, entry.name, m.value)])
      [] entry.type = "fallback" ->
            IF acc.fallback # None
            THEN Fail("JSON ABI contains more than one fallback declarations")
            ELSE LET f == Fallback_from_json(entry)
                 IN  IF f.err # "" THEN f
                     ELSE Ok([acc EXCEPT !.fallback = Some(f.value)])
      [] entry.type = "receive" ->
            IF acc.receive # None
            THEN Fail("JSON ABI contains more than one receive method declarations")
            ELSE LET r == Receive_from_json(entry)
                 IN  IF r.err # "" THEN r
                     ELSE Ok([acc EXCEPT !.receive = Some(r.value)])
      [] entry.type = "event" ->
            IF NameDeclared(acc.events, entry.name)
            THEN Fail("JSON ABI contains more than one declarations of " \o entry.name)
            ELSE LET e == Event_from_json(entry)
                 IN  IF e.err # "" THEN e
                     ELSE Ok([acc EXCEPT !.events = DictSet(@, entry.name, e.value)])
      [] entry.type = "error" ->
            IF NameDeclared(acc.errors, entry.name)
            THEN Fail("JSON ABI contains more than one declarations of " \o entry.name)
            ELSE LET e == Error_from_json(entry)
                 IN  IF e.err # "" THEN e
                     ELSE Ok([acc EXCEPT !.errors = DictSet(@, entry.name, e.value)])
      [] OTHER -> UnknownEntryType(acc, entry)

RECURSIVE FromJsonLoop(_, _, _)
\* the loop of from_json from entry i on: the locals at the end of the loop,
\* or the error raised and the position of the entry that raised it
FromJsonLoop(json_abi, i, acc) ==
    IF i > Len(json_abi) THEN [err |-> "", at |-> 0, value |-> acc]
    ELSE LET step == FromJsonEntry(acc, json_abi[i])
         IN  IF step.err # "" THEN [err |-> step.err, at |-> i, value |-> <<>>]
             ELSE FromJsonLoop(json_abi, i + 1, step.value)

\* ContractABI.from_json
ContractABI_from_json(json_abi) ==
    LET loop == FromJsonLoop(json_abi, 1, FromJsonStart)
    IN  IF loop.err # ""
        THEN [kind |-> "ValueError", msg |-> loop.err, at |-> loop.at, value |-> <<>>]
        ELSE [kind |-> "ok", msg |-> "", at |-> 0,
              value |-> ContractABI(loop.value.constructor, loop.value.fallback,
                                    loop.value.receive, Values(loop.value.methods),
                                    Values(loop.value.events), Values(loop.value.errors))]

\* the length test off by one
TooShortOffByOne(error_data) == Len(error_data) < SelectorLen - 1

\* len(error_data) < 4
TooShort(error_data) == Len(error_data) < SelectorLen

\* the split with the last selector byte left in the data
SplitErrorDataOverlapping(error_data) ==
    [selector |-> PySlice(error_data, 0, SelectorLen),
     data |-> PySlice(error_data, SelectorLen - 1, Len(error_data))]

\* selector, data = error_data[:4], error_data[4:]
SplitErrorData(error_data) ==
    [selector |-> PySlice(error_data, 0, SelectorLen),
     data |-> PySlice(error_data, SelectorLen, Len(error_data))]

\* ContractABI.resolve_error ; the steps taken are returned with the result
resolve_error(self, error_data) ==
    IF TooShort(error_data)
    THEN [kind |-> "ValueError", msg |-> "Error data too short to contain a selector",
          selector |-> <<>>, error |-> None, decoded |-> <<>>, calls |-> <<>>]
    ELSE LET selector == SplitErrorData(error_data).selector
             data     == SplitErrorData(error_data).data
         IN  IF selector \in Keys(self.error_by_selector)
             THEN LET error   == Lookup(self.error_by_selector, selector)
                      decoded == decode_fields(error, data)
                  IN  IF decoded.ok
                      THEN [kind |-> "ok", msg |-> "", selector |-> selector,
                            error |-> Some(error), decoded |-> decoded.value,
                            calls |-> <<"lookup", "decode_fields">>]
                      ELSE [kind |-> "DecodeError", msg |-> "", selector |-> selector,
                            error |-> None, decoded |-> <<>>,
                            calls |-> <<"lookup", "decode_fields">>]
             ELSE [kind |-> "UnknownError",
                   msg |-> "Could not find an error with selector in the ABI",
                   selector |-> selector, error |-> None, decoded |-> <<>>,
                   calls |-> <<"lookup">>]

(***************************************************************************)
(* The test RPC server (src/pons/_test_rpc_provider.py)                    *)
(***************************************************************************)
\* JSON values: null, a string, a number, an array
JNull == [type |-> "null", str |-> "", num |-> 0, items |-> <<>>]

JStr(s) == [type |-> "string", str |-> s, num |-> 0, items |-> <<>>]

JNum(n) == [type |-> "number", str |-> "", num |-> n, items |-> <<>>]

JArr(items) == [type |-> "array", str |-> "", num |-> 0, items |-> items]

\* a JSON object with some of the members id, method and params
JObject(keys, id, rpc_method, params) ==
    [type |-> "object", keys |-> keys, id |-> id, method |-> rpc_method, params |-> params]

\* a JSON document that is no object
NotObject(v) ==
    [type |-> v.type, keys |-> {}, id |-> JNull, method |-> JNull, params |-> JNull]

HTTPStatus_OK == 200

HTTPStatus_BAD_REQUEST == 400

HTTPStatus_INTERNAL_SERVER_ERROR == 500

\* RPCError(code, message).to_json()
RPCError(code, message) == [code |-> code, message |-> message]

NoRPCError == RPCError("", "")

\* RPCError.invalid_request()
RPCError_invalid_request == RPCError("INVALID_REQUEST", "invalid json request")

\* parse_request ; subscripting a document that is no object raises
\* TypeError, a missing member raises KeyError
parse_request(request) ==
    LET raised(exc) == [err |-> exc, request_id |-> JNull, method |-> "", params |-> <<>>]
    IN  IF request.type # "object" THEN raised("TypeError")
        ELSE IF "id" \notin request.keys THEN raised("KeyError")
        ELSE IF "method" \notin request.keys THEN raised("KeyError")
        ELSE IF request.method.type # "string" THEN raised("TypeError")
        ELSE IF "params" \notin request.keys THEN raised("KeyError")
        ELSE IF request.params.type # "array" THEN raised("TypeError")
        ELSE [err |-> "", request_id |-> request.id, method |-> request.method.str,
              params |-> request.params.items]

\* process_request_inner ; provider tells what session.rpc does when called
process_request_inner(provider, request) ==
    LET parsed == parse_request(request)
        call   == <<[method |-> parsed.method, params |-> parsed.params]>>
    IN  IF parsed.err \in {"KeyError", "TypeError"}
        THEN [raised |-> "RPCError", error |-> RPCError_invalid_request, msg |-> "",
              request_id |-> JNull, result |-> JNull, calls |-> <<>>]
        ELSE IF provider.does = "raises_rpc"
        THEN [raised |-> "RPCError", error |-> provider.error, msg |-> "",
              request_id |-> JNull, result |-> JNull, calls |-> call]
        ELSE IF provider.does = "raises"
        THEN [raised |-> "Exception", error |-> NoRPCError, msg |-> provider.msg,
              request_id |-> JNull, result |-> JNull, calls |-> call]
        ELSE [raised |-> "", error |-> NoRPCError, msg |-> "",
              request_id |-> parsed.request_id, result |-> provider.result, calls |-> call]

\* the JSON object of a response
ResponseJson(keys, id, result, error) ==
    [jsonrpc |-> "2.0", keys |-> keys, id |-> id, result |-> result, error |-> error]

NoJson == ResponseJson({}, JNull, JNull, NoRPCError)

\* process_request
process_request(provider, request) ==
    LET inner == process_request_inner(provider, request)
    IN  IF inner.raised = "RPCError"
        THEN [raised |-> "", msg |-> "", status |-> HTTPStatus_BAD_REQUEST,
              response |-> ResponseJson({"jsonrpc", "error"}, JNull, JNull, inner.error),
              calls |-> inner.calls]
        ELSE IF inner.raised # ""
        THEN [raised |-> inner.raised, msg |-> inner.msg, status |-> 0,
              response |-> NoJson, calls |-> inner.calls]
        ELSE [raised |-> "", msg |-> "", status |-> HTTPStatus_OK,
              response |-> ResponseJson({"jsonrpc", "id", "result"},
                                        inner.request_id, inner.result, NoRPCError),
              calls |-> inner.calls]

\* entry_point ; request.json() is awaited before the try statement, so what
\* it raises for a body that is no JSON document leaves the handler
entry_point(body, provider) ==
    IF ~body.wellformed
    THEN [kind |-> "escaped", exc |-> "JSONDecodeError", status |-> 0, media |-> "",
          json |-> NoJson, text |-> "", calls |-> <<>>]
    ELSE LET r == process_request(provider, body.data)
         IN  IF r.raised # ""
             THEN [kind |-> "response", exc |-> "", status |-> HTTPStatus_INTERNAL_SERVER_ERROR,
                   media |-> "text", json |-> NoJson, text |-> r.msg, calls |-> r.calls]
             ELSE [kind |-> "response", exc |-> "", status |-> r.status,
                   media |-> "json", json |-> r.response, text |-> "", calls |-> r.calls]

\* shutdown taken to return without waiting
FinishedNotAwaited(h) == TRUE

\* await self._shutdown_finished.wait()
FinishedIsSet(h) == h.shutdown_finished

(***************************************************************************)
(* The inputs the operations are given                                     *)
(***************************************************************************)
SeqsUpTo(S, n) == UNION {[1..k -> S] : k \in 0..n}

In(name, type, indexed) == [name |-> name, type |-> type, indexed |-> indexed]

Entry(type, keys, name, mut, inputs, outputs, anonymous) ==
    [type |-> type, keys |-> keys, name |-> name, stateMutability |-> mut,
     inputs |-> inputs, outputs |-> outputs, anonymous |-> anonymous]

MethodKeys == {"type", "stateMutability", "inputs"}

\* The declaration entries a JSON ABI of the model is made of.
JsonEntries ==
    { Entry("constructor", MethodKeys, "", "nonpayable", <<>>, <<>>, FALSE),
      Entry("constructor", MethodKeys, "", "payable",
            <<In("x", "uint256", FALSE)>>, <<>>, FALSE),
      Entry("constructor", MethodKeys, "", "view", <<>>, <<>>, FALSE),
      Entry("function", MethodKeys \cup {"name"}, "T", "nonpayable", <<>>, <<>>, FALSE),
      Entry("function", MethodKeys \cup {"name", "outputs"}, "T", "view",
            <<In("x", "uint256", FALSE)>>, <<In("", "uint256", FALSE)>>, FALSE),
      Entry("fallback", {"type", "stateMutability"}, "", "nonpayable", <<>>, <<>>, FALSE),
      Entry("receive", {"type", "stateMutability"}, "", "payable", <<>>, <<>>, FALSE),
      Entry("event", {"type", "name", "inputs", "anonymous"}, "T", "",
            <<In("from", "address", TRUE), In("value", "uint256", FALSE)>>, <<>>, FALSE),
      Entry("event", {"type", "name", "inputs", "anonymous"}, "T", "",
            <<In("a", "uint256", TRUE)>>, <<>>, TRUE),
      Entry("error", {"type", "name", "inputs"}, "Panic", "",
            <<In("x", "uint256", FALSE)>>, <<>>, FALSE),
      Entry("error", {"type", "name", "inputs"}, "T", "",
            <<In("v", "uint256", FALSE)>>, <<>>, FALSE),
      Entry("error", {"type", "name", "inputs"}, "T", "",
            <<In("w", "address", FALSE)>>, <<>>, FALSE),
      Entry("error", {"type", "name", "inputs"}, "U", "",
            <<In("b", "bool", FALSE)>>, <<>>, FALSE),
      Entry("struct", {"type", "name"}, "T", "", <<>>, <<>>, FALSE) }

\* The field mappings Event.__init__ is given.
EventFields ==
    { << <<"from", "address">>, <<"to", "address">>, <<"value", "uint256">> >>,
      << <<"a", "uint256">>, <<"b", "string">>, <<"c", "address">>,
         <<"d", "address">>, <<"e", "uint256">> >>,
      << <<"from", "address">>, <<"from_", "uint256">> >> }

\* The values an event field is bound to.
BindVals ==
    { Plain(<<"addr", 1>>), Plain(<<"int", 2>>),
      Either(<< <<"addr", 1>>, <<"addr", 2>> >>), Either(<<>>) }

\* The keyword arguments an event is called with: none, or one that names a
\* field of the event or a name that is no field.
KeywordArgs(ev) ==
    {<<>>} \cup { << <<name, val>> >> :
                    name \in Keys(ev.fields.types) \cup {"zz"}, val \in BindVals }

\* The topics a log entry is made of.
TopicVals == { <<0, 0, 0, 0, 1>>, <<1, 1, 0, 1, 0>> }

\* The topic lists of the log entries given to an event: the first topic is
\* the topic of the event or any other topic.
LogTopics(ev) ==
    {<<>>} \cup { <<first>> \o rest : first \in TopicVals \cup {Event_topic(ev)},
                                     rest \in SeqsUpTo(TopicVals, MaxTopics - 1) }

\* The arguments Method.__init__ is given.
MethodNames == {"T", "U"}

Mutabilities == {"pure", "view", "nonpayable", "payable"}

InputParams ==
    { TypeList(<<>>), TypeList(<<"uint256">>), TypeList(<<"uint256", "address">>),
      TypeDict(<< <<"x", "uint256">> >>),
      TypeDict(<< <<"a", "uint256">>, <<"b", "address">> >>),
      TypeDict(<< <<"from", "uint256">>, <<"to", "address">> >>),
      TypeDict(<< <<"from", "uint256">>, <<"from_", "address">> >>) }

\* outputs: None, a bare Type, or a list or dict of types
NoOutputs == [kind |-> "none", type |-> "", params |-> TypeList(<<>>)]

OneType(tp) == [kind |-> "type", type |-> tp, params |-> TypeList(<<>>)]

Params(ps) == [kind |-> "params", type |-> "", params |-> ps]

OutputDecls ==
    { NoOutputs, OneType("uint256"), OneType("bool"),
      Params(TypeList(<<"uint256">>)), Params(TypeList(<<"uint256", "bool">>)),
      Params(TypeDict(<< <<"r", "uint256">> >>)) }

\* The function entries Method.from_json is given, and one entry that
\* declares no function.
MethodEntries ==
    { Entry("function",
            {"type", "name", "stateMutability", "inputs"} \cup
                (IF outs[1] THEN {"outputs"} ELSE {}),
            "T", mut, ins, outs[2], FALSE) :
        mut \in Mutabilities \cup {"constant"},
        ins \in { <<>>, <<In("x", "uint256", FALSE)>>,
                  <<In("", "uint256", FALSE), In("", "address", FALSE)>>,
                  <<In("from", "uint256", FALSE), In("to", "address", FALSE)>> },
        outs \in { <<FALSE, <<>> >>, <<TRUE, <<>> >>,
                   <<TRUE, <<In("", "uint256", FALSE)>> >>,
                   <<TRUE, <<In("", "uint256", FALSE), In("", "bool", FALSE)>> >>,
                   <<TRUE, <<In("r", "uint256", FALSE)>> >>,
                   <<TRUE, <<In("r", "uint256", FALSE), In("", "bool", FALSE)>> >> } }
    \cup { Entry("event", {"type", "name", "inputs", "anonymous"}, "T", "constant",
                  <<>>, <<>>, FALSE) }

\* The values a parameter is bound to.
EncodeVals == {0, 1}

\* The keyword arguments Signature.encode is given: at most two, with names
\* of parameters, the name a parameter had before make_name_safe, or a name
\* that is no parameter.
KwNames(sig) == {sig.names[i] : i \in DOMAIN sig.names} \cup {"from", "zz"}

EncodeKwargs(sig) ==
    {<<>>} \cup { << <<k, v>> >> : k \in KwNames(sig), v \in EncodeVals }
           \cup { kw \in { << <<k1, 0>>, <<k2, 1>> >> :
                                k1 \in KwNames(sig), k2 \in KwNames(sig) } :
                     kw[1][1] # kw[2][1] }

\* The documents POSTed to the server: objects with any of the three members,
\* a method that is a string or not, params that are a list or not; and
\* documents that are no object.
RequestData ==
    { JObject(keys, JNum(1), rpc_method, params) :
        keys \in SUBSET {"id", "method", "params"},
        rpc_method \in {JStr("net_version"), JNum(5)},
        params \in {JArr(<<>>), JArr(<<1>>), JStr("x")} }
    \cup { NotObject(JArr(<<>>)), NotObject(JStr("x")), NotObject(JNum(1)),
           NotObject(JNull) }

\* The bodies POSTed: a JSON document, or bytes that are no JSON document.
Bodies ==
    { [wellformed |-> TRUE, data |-> d] : d \in RequestData }
    \cup { [wellformed |-> FALSE, data |-> NotObject(JNull)] }

\* What session.rpc does when it is called.
ProviderBehaviours ==
    { [does |-> "returns", result |-> JStr("0"), error |-> NoRPCError, msg |-> ""],
      [does |-> "raises_rpc", result |-> JNull,
       error |-> RPCError("METHOD_NOT_FOUND", "abc"), msg |-> ""],
      [does |-> "raises", result |-> JNull, error |-> NoRPCError,
       msg |-> "Something unexpected happened"] }

(***************************************************************************)
(* The state machine: an object is built, then used once.  The operations  *)
(* on a built object do not change it.                                     *)
(***************************************************************************)
\* ServerHandle.__init__ ; server and caller are the positions of the task
\* running __call__ and of the task calling shutdown
ServerHandle ==
    [shutdown_event |-> FALSE, shutdown_finished |-> FALSE,
     server |-> "not_started", caller |-> "idle"]

NoOutcome == [kind |-> "none", msg |-> ""]

Init ==
    /\ phase = "new"
    /\ input = <<>>
    /\ abi = None
    /\ event = None
    /\ outcome = NoOutcome
    /\ trace = <<>>
    /\ method = None
    /\ other = None
    /\ cache = <<None, None>>
    /\ handle = ServerHandle

\* abi = ContractABI.from_json(json_abi)
FromJson(json_abi) ==
    /\ phase = "new"
    /\ LET r == ContractABI_from_json(json_abi)
       IN  /\ abi' = IF r.kind = "ok" THEN Some(r.value) ELSE None
           /\ outcome' = [kind |-> r.kind, msg |-> r.msg, at |-> r.at]
           /\ phase' = IF r.kind = "ok" THEN "abi_built" ELSE "abi_failed"
    /\ input' = json_abi
    /\ trace' = <<>>
    /\ UNCHANGED <<event, method, other, cache, handle>>

\* abi.resolve_error(error_data)
ResolveError(error_data) ==
    /\ phase = "abi_built"
    /\ LET r == resolve_error(abi[1], error_data)
       IN  /\ outcome' = [kind |-> r.kind, msg |-> r.msg, selector |-> r.selector,
                          error |-> r.error, decoded |-> r.decoded]
           /\ trace' = r.calls
    /\ phase' = "resolved"
    /\ input' = error_data
    /\ UNCHANGED <<abi, event, method, other, cache, handle>>

\* event = Event(name, fields, indexed, anonymous)
NewEvent(name, fields, indexed, anonymous) ==
    /\ phase = "new"
    /\ LET r == Event(name, fields, indexed, anonymous)
       IN  /\ event' = IF r.err = "" THEN Some(r.value) ELSE None
           /\ outcome' = [kind |-> IF r.err = "" THEN "ok" ELSE "ValueError", msg |-> r.err]
           /\ phase' = IF r.err = "" THEN "event_built" ELSE "event_failed"
    /\ input' = [name |-> name, fields |-> fields, indexed |-> indexed,
                 anonymous |-> anonymous]
    /\ trace' = <<>>
    /\ UNCHANGED <<abi, method, other, cache, handle>>

\* event(*args, **kwargs)
EventCall(args, kwargs) ==
    /\ phase = "event_built"
    /\ outcome' = Event_call(event[1], args, kwargs)
    /\ phase' = "called"
    /\ input' = [args |-> args, kwargs |-> kwargs]
    /\ trace' = <<>>
    /\ UNCHANGED <<abi, event, method, other, cache, handle>>

\* event.fields.decode_log_entry(topics, data)
DecodeLogEntry(topics, data) ==
    /\ phase = "event_built"
    /\ LET r == EventSignature_decode_log_entry(event[1].fields, topics, data)
       IN  /\ outcome' = [kind |-> r.kind, msg |-> r.msg, value |-> r.value]
           /\ trace' = r.calls
    /\ phase' = "decoded"
    /\ input' = [decl |-> input, topics |-> topics, data |-> data]
    /\ UNCHANGED <<abi, event, method, other, cache, handle>>

\* event.decode_log_entry(LogEntry(topics=topics, data=data))
EventDecodeLogEntry(topics, data) ==
    /\ phase = "event_built"
    /\ LET r == Event_decode_log_entry(event[1], topics, data)
       IN  /\ outcome' = [kind |-> r.kind, msg |-> r.msg, value |-> r.value,
                          handed |-> r.handed]
           /\ trace' = r.calls
    /\ phase' = "entry_decoded"
    /\ input' = [topics |-> topics, data |-> data]
    /\ UNCHANGED <<abi, event, method, other, cache, handle>>

\* method = Method(name, mutability, inputs, outputs)
NewMethod(name, mutability, inputs, outputs) ==
    /\ phase = "new"
    /\ LET raises == \/ Signature_raises(inputs)
                      \/ (outputs.kind = "params" /\ Signature_raises(outputs.params))
       IN  /\ method' = IF raises THEN None
                         ELSE Some(Method(name, mutability, inputs, outputs))
           /\ outcome' = IF raises
                          THEN [kind |-> "ValueError", msg |-> "duplicate parameter name"]
                          ELSE [kind |-> "ok", msg |-> ""]
           /\ phase' = IF raises THEN "method_failed" ELSE "method_built"
    /\ input' = [how |-> "init", name |-> name, mutability |-> mutability,
                 inputs |-> inputs, outputs |-> outputs]
    /\ trace' = <<>>
    /\ UNCHANGED <<abi, event, other, cache, handle>>

\* method = Method.from_json(method_entry)
MethodFromJson(method_entry) ==
    /\ phase = "new"
    /\ LET r == Method_from_json(method_entry)
       IN  /\ method' = IF r.err = "" THEN Some(r.value) ELSE None
           /\ outcome' = [kind |-> IF r.err = "" THEN "ok" ELSE "ValueError", msg |-> r.err]
           /\ phase' = IF r.err = "" THEN "method_built" ELSE "method_failed"
    /\ input' = [how |-> "json", entry |-> method_entry]
    /\ trace' = <<>>
    /\ UNCHANGED <<abi, event, other, cache, handle>>

\* method.decode_output(output_bytes)
DecodeOutput(output_bytes) ==
    /\ phase = "method_built"
    /\ outcome' = Method_decode_output(method[1], output_bytes)
    /\ phase' = "output_decoded"
    /\ input' = [decl |-> input, output_bytes |-> output_bytes]
    /\ trace' = <<>>
    /\ UNCHANGED <<abi, event, method, other, cache, handle>>

\* method.inputs.encode(*args, **kwargs)
Encode(args, kwargs) ==
    /\ phase = "method_built"
    /\ outcome' = Signature_encode(method[1].inputs, args, kwargs)
    /\ phase' = "encoded"
    /\ input' = [decl |-> input, args |-> args, kwargs |-> kwargs]
    /\ trace' = <<>>
    /\ UNCHANGED <<abi, event, method, other, cache, handle>>

\* other = Method(name, mutability, inputs, outputs)
NewOther(name, mutability, inputs, outputs) ==
    /\ phase = "method_built"
    /\ LET raises == \/ Signature_raises(inputs)
                      \/ (outputs.kind = "params" /\ Signature_raises(outputs.params))
       IN  /\ other' = IF raises THEN None
                        ELSE Some(Method(name, mutability, inputs, outputs))
           /\ outcome' = IF raises
                          THEN [kind |-> "ValueError", msg |-> "duplicate parameter name"]
                          ELSE [kind |-> "ok", msg |-> ""]
           /\ phase' = IF raises THEN "pair_failed" ELSE "pair_built"
    /\ input' = [how |-> "init", name |-> name, mutability |-> mutability,
                 inputs |-> inputs, outputs |-> outputs]
    /\ trace' = <<>>
    /\ UNCHANGED <<abi, event, method, cache, handle>>

\* method.selector (which = 1) or other.selector (which = 2): a
\* cached_property computes on the first read and stores the value on the
\* object, later reads return the stored value
ReadSelector(which) ==
    /\ phase \in {"pair_built", "selector_read"}
    /\ LET obj   == IF which = 1 THEN method[1] ELSE other[1]
           value == IF cache[which] # None THEN cache[which][1] ELSE Method_selector(obj)
       IN  /\ cache' = [cache EXCEPT ![which] = Some(value)]
           /\ outcome' = [kind |-> "ok", msg |-> "", value |-> value]
    /\ phase' = "selector_read"
    /\ input' = [which |-> which, again |-> cache[which] # None]
    /\ trace' = <<>>
    /\ UNCHANGED <<abi, event, method, other, handle>>

\* nursery.start(handle): the server task enters serve()
Start ==
    /\ handle.server = "not_started"
    /\ handle' = [handle EXCEPT !.server = "serving"]
    /\ UNCHANGED <<phase, input, abi, event, outcome, trace, method, other, cache>>

\* a POST to the running server: entry_point(request)
HandleRequest(body, provider) ==
    /\ handle.server = "serving"
    /\ LET r == entry_point(body, provider)
       IN  /\ outcome' = [kind |-> r.kind, exc |-> r.exc, status |-> r.status,
                          media |-> r.media, json |-> r.json, text |-> r.text]
           /\ trace' = r.calls
    /\ phase' = "request_handled"
    /\ input' = [body |-> body, provider |-> provider]
    /\ UNCHANGED <<abi, event, method, other, cache, handle>>

\* handle.shutdown() up to its await: self._shutdown_event.set()
ShutdownCalled ==
    /\ handle.caller = "idle"
    /\ handle' = [handle EXCEPT !.shutdown_event = TRUE, !.caller = "waiting"]
    /\ UNCHANGED <<phase, input, abi, event, outcome, trace, method, other, cache>>

\* the shutdown trigger given to serve, self._shutdown_event.wait, returns
TriggerFires ==
    /\ handle.server = "serving"
    /\ handle.shutdown_event
    /\ handle' = [handle EXCEPT !.server = "stopping"]
    /\ UNCHANGED <<phase, input, abi, event, outcome, trace, method, other, cache>>

\* await serve(...) returns
ServeReturns ==
    /\ handle.server = "stopping"
    /\ handle' = [handle EXCEPT !.server = "returned"]
    /\ UNCHANGED <<phase, input, abi, event, outcome, trace, method, other, cache>>

\* self._shutdown_finished.set() and the end of __call__
SetFinished ==
    /\ handle.server = "returned"
    /\ handle' = [handle EXCEPT !.shutdown_finished = TRUE, !.server = "finished"]
    /\ UNCHANGED <<phase, input, abi, event, outcome, trace, method, other, cache>>

\* handle.shutdown() returns from await self._shutdown_finished.wait()
ShutdownReturns ==
    /\ handle.caller = "waiting"
    /\ FinishedIsSet(handle)
    /\ handle' = [handle EXCEPT !.caller = "returned"]
    /\ UNCHANGED <<phase, input, abi, event, outcome, trace, method, other, cache>>

\* The operations on a ContractABI.
NextABI ==
    \/ /\ phase = "new"
       /\ \E json_abi \in SeqsUpTo(JsonEntries, MaxEntries) : FromJson(json_abi)
    \/ /\ phase = "abi_built"
       /\ \E error_data \in SeqsUpTo(Bytes, MaxData) : ResolveError(error_data)

\* The operations on an Event.
NextEvent ==
    \/ /\ phase = "new"
       /\ \E fields \in EventFields :
            \E indexed \in SUBSET (Keys(fields) \cup {"zz"}) :
              \E anonymous \in BOOLEAN : NewEvent("T", fields, indexed, anonymous)
    \/ /\ phase = "event_built"
       /\ \E args \in SeqsUpTo(BindVals, MaxArgs) :
            \E kwargs \in KeywordArgs(event[1]) : EventCall(args, kwargs)
    \/ /\ phase = "event_built"
       /\ \E topics \in SeqsUpTo(TopicVals, MaxTopics) :
            \E data \in SeqsUpTo(Bytes, MaxLogData) : DecodeLogEntry(topics, data)
    \/ /\ phase = "event_built"
       /\ \E topics \in LogTopics(event[1]) :
            \E data \in SeqsUpTo(Bytes, MaxLogData) : EventDecodeLogEntry(topics, data)

SpecABI == Init /\ [][NextABI]_vars

SpecEvent == Init /\ [][NextEvent]_vars

\* The operations on a Method.
NextMethod ==
    \/ /\ phase = "new"
       /\ \E name \in MethodNames, mutability \in Mutabilities :
            \E inputs \in InputParams, outputs \in OutputDecls :
              NewMethod(name, mutability, inputs, outputs)
    \/ /\ phase = "new"
       /\ \E method_entry \in MethodEntries : MethodFromJson(method_entry)
    \/ /\ phase = "method_built"
       /\ \E output_bytes \in SeqsUpTo(Bytes, MaxOutput) : DecodeOutput(output_bytes)
    \/ /\ phase = "method_built"
       /\ \E args \in SeqsUpTo(EncodeVals, MaxArgs) :
            \E kwargs \in EncodeKwargs(method[1].inputs) : Encode(args, kwargs)

SpecMethod == Init /\ [][NextMethod]_vars

\* Two methods built independently, and reads of their selectors.
NextSelector ==
    \/ /\ phase = "new"
       /\ \E name \in MethodNames, mutability \in {"view", "payable"} :
            \E inputs \in InputParams, outputs \in {NoOutputs, Params(TypeList(<<"uint256">>))} :
              NewMethod(name, mutability, inputs, outputs)
    \/ /\ phase = "method_built"
       /\ \E name \in MethodNames, mutability \in {"pure", "payable"} :
            \E inputs \in InputParams, outputs \in {NoOutputs, OneType("bool")} :
              NewOther(name, mutability, inputs, outputs)
    \/ /\ phase \in {"pair_built", "selector_read"}
       /\ \E which \in {1, 2} : ReadSelector(which)

SpecSelector == Init /\ [][NextSelector]_vars

\* The server task, the caller of shutdown and the clients of the server.
NextServer ==
    \/ Start
    \/ /\ handle.server = "serving"
       /\ \E body \in Bodies, provider \in ProviderBehaviours : HandleRequest(body, provider)
    \/ ShutdownCalled
    \/ TriggerFires
    \/ ServeReturns
    \/ SetFinished
    \/ ShutdownReturns

\* A task that can run is run in the end: the steps of the server task after
\* the shutdown event is set and the wake-up of the caller of shutdown are
\* taken when they stay possible.  Starting the server, calling shutdown and
\* posting requests are up to the user.
SpecServer ==
    /\ Init
    /\ [][NextServer]_vars
    /\ WF_vars(TriggerFires)
    /\ WF_vars(ServeReturns)
    /\ WF_vars(SetFinished)
    /\ WF_vars(ShutdownReturns)

(***************************************************************************)
(* Properties of ContractABI.from_json                                     *)
(***************************************************************************)
FromJsonDone == phase \in {"abi_built", "abi_failed"}

\* the positions of the entries of one type
PositionsOfType(json_abi, type) == {i \in DOMAIN json_abi : json_abi[i].type = type}

\* the second smallest member of a set of at least two positions
SecondOf(positions) ==
    CHOOSE j \in positions : Cardinality({i \in positions : i < j}) = 1

DuplicateConstructorMsg == "JSON ABI contains more than one constructor declarations"

DefaultConstructor ==
    [inputs |-> [names |-> <<>>, types |-> <<>>, named_parameters |-> FALSE],
     payable |-> FALSE]

\* from_json of the entries before position i raises nothing
AcceptedBefore(json_abi, i) ==
    ContractABI_from_json(SubSeq(json_abi, 1, i - 1)).kind = "ok"

\* C1 as stated: whatever else the list holds, a list with two constructor
\* entries fails with the duplicate-constructor error at the second of them,
\* and a list with none gives the default constructor.
C1_Original ==
    FromJsonDone =>
        LET ctors == PositionsOfType(input, "constructor")
        IN  /\ Cardinality(ctors) >= 2 =>
                 /\ outcome.kind = "ValueError"
                 /\ outcome.msg = DuplicateConstructorMsg
                 /\ outcome.at = SecondOf(ctors)
            /\ (ctors = {} /\ phase = "abi_built") =>
                 abi[1].constructor = DefaultConstructor

\* C1 amended: a list with two constructor entries always fails, at the
\* second constructor entry or before it; the failure is the
\* duplicate-constructor error at the second constructor entry whenever the
\* entries before that one are accepted.  A list with no constructor entry
\* that is accepted gives the default constructor: no inputs, not payable.
C1_DuplicateConstructor ==
    FromJsonDone =>
        LET ctors == PositionsOfType(input, "constructor")
        IN  /\ Cardinality(ctors) >= 2 =>
                 /\ phase = "abi_failed"
                 /\ abi = None
                 /\ outcome.kind = "ValueError"
                 /\ outcome.at <= SecondOf(ctors)
                 /\ AcceptedBefore(input, SecondOf(ctors)) =>
                        /\ outcome.at = SecondOf(ctors)
                        /\ outcome.msg = DuplicateConstructorMsg
            /\ (ctors = {} /\ phase = "abi_built") =>
                 abi[1].constructor = DefaultConstructor

\* two constructor entries, refused at the second as a duplicate
C1_Witness ==
    /\ phase = "abi_failed"
    /\ Cardinality(PositionsOfType(input, "constructor")) >= 2
    /\ outcome.msg = DuplicateConstructorMsg
    /\ outcome.at = SecondOf(PositionsOfType(input, "constructor"))

NamedKinds == {"function", "event", "error"}

\* the entities of one kind an ABI holds
EntitiesOf(contract, kind) ==
    CASE kind = "function" -> contract.method
      [] kind = "event"    -> contract.event
      [] kind = "error"    -> contract.error

\* C2: a name declared twice for the same kind makes from_json fail; an ABI
\* that was built holds, for each kind, one entity per entry of that kind,
\* under the names of the entries in their order; and the duplicate error is
\* raised only at an entry whose name an earlier entry of the same kind has,
\* never for a name shared by entries of different kinds.
C2_NoSilentShadowing ==
    FromJsonDone =>
        \A kind \in NamedKinds :
            LET at == PositionsOfType(input, kind)
            IN  /\ (\E i, j \in at : i < j /\ input[i].name = input[j].name) =>
                     /\ phase = "abi_failed"
                     /\ abi = None
                     /\ outcome.kind = "ValueError"
                /\ phase = "abi_built" =>
                     /\ Len(EntitiesOf(abi[1], kind)) = Cardinality(at)
                     /\ KeySeq(EntitiesOf(abi[1], kind)) =
                            [k \in 1..Cardinality(at) |->
                                input[CHOOSE i \in at :
                                        Cardinality({j \in at : j <= i}) = k].name]
                     /\ \A k \in DOMAIN EntitiesOf(abi[1], kind) :
                            EntitiesOf(abi[1], kind)[k][2].name = EntitiesOf(abi[1], kind)[k][1]
                /\ (phase = "abi_failed" /\ outcome.at \in at
                    /\ outcome.msg = "JSON ABI contains more than one declarations of "
                                     \o input[outcome.at].name) =>
                     \E i \in at : i < outcome.at /\ input[i].name = input[outcome.at].name

\* an ABI built from a function, an event and an error of one name
C2_Witness ==
    /\ phase = "abi_built"
    /\ \A kind \in NamedKinds : Keys(EntitiesOf(abi[1], kind)) = {"T"}

(***************************************************************************)
(* Properties of Event.__init__                                            *)
(***************************************************************************)
NewEventDone == phase \in {"event_built", "event_failed"}

\* C3: an Event that was built has at most 3 indexed fields, or 4 when it is
\* anonymous, whether counted by its indexed set or by the parameters that
\* can be bound; with 4 indexed fields and anonymous false, or 5 and
\* anonymous true, the construction fails and no Event exists.
C3_IndexedCap ==
    /\ event # None =>
         LET cap == IF event[1].anonymous THEN 4 ELSE 3
         IN  /\ Cardinality(event[1].indexed) <= cap
             /\ Len(event[1].fields.signature) <= cap
    /\ NewEventDone =>
         /\ (Cardinality(input.indexed) = 4 /\ ~input.anonymous) =>
                phase = "event_failed" /\ event = None /\ outcome.kind = "ValueError"
         /\ (Cardinality(input.indexed) = 5 /\ input.anonymous) =>
                phase = "event_failed" /\ event = None /\ outcome.kind = "ValueError"
         /\ (Cardinality(input.indexed) <= 3 \/
             (Cardinality(input.indexed) = 4 /\ input.anonymous)) =>
                phase = "event_built" /\ event # None

\* five fields of the event, all indexed, refused for an anonymous event
C3_Witness ==
    /\ phase = "event_failed"
    /\ input.anonymous
    /\ Cardinality(input.indexed) = 5
    /\ input.indexed = Keys(input.fields)
    /\ outcome.msg = "Anonymous events can have at most 4 indexed fields"

(***************************************************************************)
(* Properties of ContractABI.resolve_error                                 *)
(***************************************************************************)
\* the first four bytes of the data given, and the bytes after them
GivenSelector == [i \in 1..4 |-> input[i]]

GivenPayload == [i \in 1..(Len(input) - 4) |-> input[i + 4]]

PanicSelector == <<0, 0, 0, 1>>

LegacySelector == <<0, 0, 1, 0>>

\* the errors in the order __init__ registers them
Registered(contract) == <<PANIC_ERROR, LEGACY_ERROR>> \o Values(contract.error)

\* the positions in Registered of the errors with a selector
RegisteredWith(contract, selector) ==
    {i \in DOMAIN Registered(contract) : Error_selector(Registered(contract)[i]) = selector}

DeclaredWith(contract, selector) ==
    {i \in DOMAIN contract.error : Error_selector(contract.error[i][2]) = selector}

Min(S) == CHOOSE x \in S : \A y \in S : x <= y

Max(S) == CHOOSE x \in S : \A y \in S : x >= y

\* the result resolve_error gives for a built-in error with one field
ResolvesTo(error, field, tp) ==
    /\ outcome.kind = "ok"
    /\ outcome.error = Some(error)
    /\ outcome.decoded = << <<field, decode_args(<<tp>>, GivenPayload).values[1]>> >>

C6_ShortData ==
    (phase = "resolved" /\ Len(input) < 4) =>
        /\ outcome.kind = "ValueError"
        /\ outcome.msg = "Error data too short to contain a selector"
        /\ outcome.error = None
        /\ trace = <<>>

\* three bytes given, refused for their length
C6_Witness ==
    /\ phase = "resolved"
    /\ Len(input) = 3
    /\ outcome.kind = "ValueError"
    /\ trace = <<>>

\* C7: for data of at least 4 bytes, when the first 4 bytes are a key of the
\* index the result is the error indexed under them with the decoding of
\* exactly the bytes after the first 4 under the fields of that error (or
\* the failure of that decoding); when they are no key the call fails with
\* UnknownError carrying those 4 bytes, and gives no value.
C7_LookupAndDecode ==
    (phase = "resolved" /\ Len(input) >= 4) =>
        IF GivenSelector \in Keys(abi[1].error_by_selector)
        THEN LET error   == Lookup(abi[1].error_by_selector, GivenSelector)
                 decoded == decode_args(error.fields.types, GivenPayload)
             IN  /\ trace = <<"lookup", "decode_fields">>
                 /\ decoded.ok =>
                       /\ outcome.kind = "ok"
                       /\ outcome.error = Some(error)
                       /\ outcome.decoded =
                             [i \in DOMAIN error.fields.names |->
                                 <<error.fields.names[i], decoded.values[i]>>]
                 /\ ~decoded.ok =>
                       outcome.kind = "DecodeError" /\ outcome.error = None
        ELSE /\ outcome.kind = "UnknownError"
             /\ outcome.selector = GivenSelector
             /\ outcome.error = None
             /\ outcome.decoded = <<>>
             /\ trace = <<"lookup">>

\* a declared error resolved with a field decoded from the fifth byte
C7_Witness ==
    /\ phase = "resolved"
    /\ Len(input) = 5
    /\ outcome.kind = "ok"
    /\ outcome.error[1].name = "T"
    /\ outcome.decoded = << <<"w", <<"addr", input[5]>> >> >>

(***************************************************************************)
(* Properties of Event.__call__ and EventSignature                         *)
(***************************************************************************)
\* the entry of a filter that holds the topic signature of the event
OwnTopic == Some(<<keccak(event[1].name \o "("
                          \o JoinComma(Values(event[1].fields.types)) \o ")")>>)

\* C8: a filter returned by calling an event never ends with None; for a
\* non-anonymous event its first entry is the one-element tuple of the topic
\* signature of the event, and a call with no arguments gives exactly that
\* entry; for an anonymous event no such entry is put in front, and a call
\* with no arguments gives the empty sequence.
C8_FilterShape ==
    (phase = "called" /\ outcome.kind = "ok") =>
        LET topics == outcome.value
        IN  /\ topics # <<>> => topics[Len(topics)] # None
            /\ ~event[1].anonymous => (topics # <<>> /\ topics[1] = OwnTopic)
            /\ (input.args = <<>> /\ input.kwargs = <<>>) =>
                   topics = IF event[1].anonymous THEN <<>> ELSE <<OwnTopic>>
            /\ (event[1].anonymous /\ Len(event[1].fields.signature) = 0) => topics = <<>>

\* a non-anonymous event with three indexed fields called with no arguments
C8_Witness ==
    /\ phase = "called"
    /\ outcome.kind = "ok"
    /\ ~event[1].anonymous
    /\ Len(event[1].fields.signature) = 3
    /\ input.args = <<>> /\ input.kwargs = <<>>
    /\ outcome.value = <<OwnTopic>>

\* the indexed fields of the event in declaration order
IndexedInOrder ==
    SelectSeq(KeySeq(event[1].fields.types), LAMBDA name : name \in event[1].fields.indexed)

\* what the k-th indexed field is bound to by the arguments given: the k-th
\* positional value, else the keyword value under its name, else nothing
BoundTo(k) ==
    IF k <= Len(input.args) THEN Some(input.args[k])
    ELSE IF input.kwargs # <<>> /\ input.kwargs[1][1] = IndexedInOrder[k]
    THEN Some(input.kwargs[1][2])
    ELSE None

\* the entry of the k-th indexed field before the trailing None are removed
EntryOf(k) ==
    IF BoundTo(k) = None THEN None
    ELSE LET val == BoundTo(k)[1]
             tp  == Lookup(event[1].fields.types, IndexedInOrder[k])
         IN  IF val.either
             THEN Some([i \in DOMAIN val.items |-> encode_to_topic(tp, val.items[i])])
             ELSE Some(<<encode_to_topic(tp, val.items[1])>>)

\* the entries of the filter that follow the topic signature
FieldEntries ==
    IF event[1].anonymous THEN outcome.value ELSE Tail(outcome.value)

\* C9: the entries of the result are those of the indexed fields in
\* declaration order: None for an unbound field, a one-element tuple of the
\* topic encoding for a plain value, one topic encoding per alternative in
\* the order given for an Either; only the None entries after the last bound
\* field are missing, so an unbound field before a bound one keeps its
\* place.  A keyword that names a non-indexed field, or no field, is refused.
C9_EncodeToTopics ==
    phase = "called" =>
        /\ outcome.kind = "ok" =>
             /\ Len(FieldEntries) <= Len(IndexedInOrder)
             /\ \A k \in DOMAIN IndexedInOrder :
                    IF k <= Len(FieldEntries)
                    THEN FieldEntries[k] = EntryOf(k)
                    ELSE EntryOf(k) = None
             /\ FieldEntries # <<>> => EntryOf(Len(FieldEntries)) # None
        /\ (input.kwargs # <<>> /\ input.kwargs[1][1] \notin event[1].fields.indexed) =>
             outcome.kind = "TypeError"
        /\ Len(input.args) > Len(IndexedInOrder) => outcome.kind = "TypeError"

\* the first indexed field unbound, the second bound by keyword to an Either
\* of two alternatives
C9_Witness ==
    /\ phase = "called"
    /\ outcome.kind = "ok"
    /\ Len(FieldEntries) = 2
    /\ FieldEntries[1] = None
    /\ Len(FieldEntries[2][1]) = 2
    /\ FieldEntries[2][1][1] # FieldEntries[2][1][2]
    /\ input.args = <<>>

\* C10: decode_log_entry fails with the topic-count error, which cites the
\* number of topics and the number of indexed fields, exactly when the two
\* numbers differ, and then no topic and no data has been decoded; when they
\* are equal the decoding goes on.
C10_TopicCount ==
    phase = "decoded" =>
        LET given   == Len(input.topics)
            indexed == Cardinality(event[1].fields.indexed)
        IN  IF given # indexed
            THEN /\ outcome.kind = "ValueError"
                 /\ outcome.msg = "The number of topics in the log entry ("
                        \o ToString(given)
                        \o ") does not match the number of indexed fields in the event ("
                        \o ToString(indexed) \o ")"
                 /\ trace = <<>>
            ELSE /\ outcome.kind \in {"ok", "DecodeError"}
                 /\ trace # <<>>
                 /\ trace[Len(trace)] = "decode_args"

\* one topic more than the event has indexed fields
C10_Witness ==
    /\ phase = "decoded"
    /\ Len(input.topics) = Cardinality(event[1].fields.indexed) + 1
    /\ outcome.kind = "ValueError"
    /\ trace = <<>>

(***************************************************************************)
(* Properties of Event.decode_log_entry                                    *)
(***************************************************************************)
\* C11: on a non-anonymous event every log entry whose first topic is not
\* the topic of the event, the entry without topics included, is refused
\* with the different-event error and nothing is handed on; when the first
\* topic is the topic of the event the remaining topics, and only those, are
\* handed to EventSignature.decode_log_entry; on an anonymous event all the
\* topics are handed on unchanged.
C11_MismatchedEvent ==
    phase = "entry_decoded" =>
        IF event[1].anonymous
        THEN outcome.handed = Some(input.topics)
        ELSE IF input.topics # <<>> /\ input.topics[1] = Event_topic(event[1])
        THEN outcome.handed = Some(Tail(input.topics))
        ELSE /\ outcome.kind = "ValueError"
             /\ outcome.msg = "This log entry belongs to a different event"
             /\ outcome.handed = None

(***************************************************************************)
(* Properties of Method                                                    *)
(***************************************************************************)
\* the declaration the method under study was built from
Decl == IF phase \in {"method_built", "method_failed"} THEN input ELSE input.decl

\* the method was declared with exactly one unnamed return type: a bare Type
\* given to Method.__init__, or a JSON outputs list of one entry with an
\* empty name
DeclaredOneUnnamedOutput ==
    IF Decl.how = "init" THEN Decl.outputs.kind = "type"
    ELSE /\ "outputs" \in Decl.entry.keys
         /\ Len(Decl.entry.outputs) = 1
         /\ Decl.entry.outputs[1].name = ""

\* C12 as stated: decode_output returns a bare value for every method
\* declared with exactly one unnamed return type, a method built by
\* Method.from_json included, and the full tuple for every other declaration.
C12_Original ==
    (phase = "output_decoded" /\ outcome.kind = "ok") =>
        (outcome.unwrapped <=> DeclaredOneUnnamedOutput)

\* C12: decode_output returns a bare value, the only element of the decoded
\* tuple, exactly for a method that Method.__init__ was given a bare Type as
\* outputs; a method built by Method.from_json is always given a list or a
\* dict, so it returns the full tuple, of one element when the declaration
\* has one unnamed output.
C12_SingleOutput ==
    (phase = "output_decoded" /\ outcome.kind = "ok") =>
        LET decoded == decode_args(method[1].outputs.types, input.output_bytes).values
        IN  /\ outcome.unwrapped <=> (Decl.how = "init" /\ Decl.outputs.kind = "type")
            /\ outcome.unwrapped => Len(decoded) = 1 /\ outcome.value = decoded[1]
            /\ ~outcome.unwrapped => outcome.value = decoded

\* a method built from a JSON declaration with one unnamed output returns a
\* tuple of one element
C12_Witness ==
    /\ phase = "output_decoded"
    /\ outcome.kind = "ok"
    /\ Decl.how = "json"
    /\ DeclaredOneUnnamedOutput
    /\ ~outcome.unwrapped
    /\ Len(outcome.value) = 1

(***************************************************************************)
(* Properties of Signature.encode                                          *)
(***************************************************************************)
\* the values bind every parameter once: the positional values fill the
\* first parameters, every named value names one of the remaining
\* parameters of a signature built from a mapping, and no parameter is left
BindsEveryParameterOnce ==
    LET sig == method[1].inputs
        n   == Len(sig.names)
        k   == Len(input.args)
    IN  /\ k <= n
        /\ input.kwargs # <<>> => sig.named_parameters
        /\ \A name \in Keys(input.kwargs) : \E i \in (k + 1)..n : sig.names[i] = name
        /\ \A i \in (k + 1)..n : sig.names[i] \in Keys(input.kwargs)

\* C13: Signature.encode succeeds exactly when the values bind every
\* parameter once, and then the codec is handed one value per parameter in
\* declaration order, the positional values first and then the named ones
\* by the place of their parameter; otherwise it fails with a binding error
\* and the codec is handed nothing.
C13_Binding ==
    phase = "encoded" =>
        LET sig == method[1].inputs
            n   == Len(sig.names)
        IN  IF BindsEveryParameterOnce
            THEN /\ outcome.kind = "ok"
                 /\ outcome.handed =
                        Some([i \in 1..n |-> IF i <= Len(input.args) THEN input.args[i]
                                             ELSE Lookup(input.kwargs, sig.names[i])])
                 /\ Len(outcome.value) = n
            ELSE /\ outcome.kind = "TypeError"
                 /\ outcome.handed = None
                 /\ outcome.value = <<>>

\* two named values given in the order opposite to the declaration
C13_Witness ==
    /\ phase = "encoded"
    /\ outcome.kind = "ok"
    /\ input.args = <<>>
    /\ Len(input.kwargs) = 2
    /\ input.kwargs[1][1] = method[1].inputs.names[2]
    /\ input.kwargs[2][1] = method[1].inputs.names[1]
    /\ outcome.handed = Some(<<1, 0>>)

(***************************************************************************)
(* Properties of Method.selector                                           *)
(***************************************************************************)
\* the method whose selector was read last
ReadObject == IF input.which = 1 THEN method[1] ELSE other[1]

\* C14: every read of a selector, the first or a later one, returns the
\* first four bytes of the hash of the method name followed by the canonical
\* form of the input types, so it has four bytes; and two methods with the
\* same name and the same list of input types have equal selectors whatever
\* their parameter names, naming mode, outputs and mutability.
C14_Selector ==
    phase = "selector_read" =>
        /\ Len(outcome.value) = 4
        /\ outcome.value =
              PySlice(keccak(ReadObject.name \o "("
                             \o JoinComma(ReadObject.inputs.types) \o ")"), 0, 4)
        /\ cache[input.which] = Some(outcome.value)
        /\ ( /\ cache[1] # None
             /\ cache[2] # None
             /\ method[1].name = other[1].name
             /\ method[1].inputs.types = other[1].inputs.types )
           => cache[1] = cache[2]

\* a method with named inputs and one with positional inputs of the same
\* types, of different mutability and outputs, both read, one of them twice
C14_Witness ==
    /\ phase = "selector_read"
    /\ input.again
    /\ cache[1] # None
    /\ cache[2] # None
    /\ cache[1] = cache[2]
    /\ method[1].name = other[1].name
    /\ method[1].inputs.types = other[1].inputs.types
    /\ Len(method[1].inputs.types) = 2
    /\ method[1].inputs.named_parameters # other[1].inputs.named_parameters
    /\ method[1].mutability # other[1].mutability
    /\ method[1].outputs.types # other[1].outputs.types

(***************************************************************************)
(* Properties of the mutability of a Method                                *)
(***************************************************************************)
\* the stateMutability of the function declaration, or the Mutability given
\* to Method.__init__
DeclaredMutability ==
    IF Decl.how = "json" THEN Decl.entry.stateMutability ELSE Decl.mutability

\* C15: a Method built from a declaration of mutability pure, view,
\* nonpayable or payable has payable true exactly for payable and mutating
\* true exactly for payable and nonpayable; Method.from_json given a function
\* declaration with any other mutability string fails with the
\* unknown-mutability error and builds no Method.
C15_Mutability ==
    /\ method # None =>
          /\ DeclaredMutability \in {"pure", "view", "nonpayable", "payable"}
          /\ method[1].payable <=> DeclaredMutability = "payable"
          /\ method[1].mutating <=> DeclaredMutability \in {"payable", "nonpayable"}
    /\ ( /\ phase = "method_failed"
         /\ Decl.how = "json"
         /\ Decl.entry.type = "function"
         /\ Decl.entry.stateMutability \notin {"pure", "view", "nonpayable", "payable"} )
       => /\ outcome.kind = "ValueError"
          /\ outcome.msg = "Unknown mutability identifier: " \o Decl.entry.stateMutability
          /\ method = None
    /\ ( /\ phase = "method_built"
         /\ Decl.how = "json" )
       => /\ Decl.entry.type = "function"
          /\ Decl.entry.stateMutability \in {"pure", "view", "nonpayable", "payable"}

\* a method built from a JSON declaration of mutability nonpayable
C15_Witness ==
    /\ phase = "method_built"
    /\ Decl.how = "json"
    /\ Decl.entry.stateMutability = "nonpayable"
    /\ method[1].mutating
    /\ ~method[1].payable

(***************************************************************************)
(* Properties of the entry types of ContractABI.from_json                  *)
(***************************************************************************)
KnownEntryTypes == {"constructor", "function", "fallback", "receive", "event", "error"}

\* the positions of the entries of an unknown type
UnknownPositions(json_abi) ==
    {i \in DOMAIN json_abi : json_abi[i].type \notin KnownEntryTypes}

\* C16 as stated: a list with an entry of an unknown type fails at the first
\* such entry, whatever the other entries are, and no ContractABI is built.
C16_Original ==
    (FromJsonDone /\ UnknownPositions(input) # {}) =>
        /\ phase = "abi_failed"
        /\ abi = None
        /\ outcome.kind = "ValueError"
        /\ outcome.at = Min(UnknownPositions(input))

\* C16 amended: the entries are processed in sequence order, so a list with
\* an entry of an unknown type always fails with a validation error and
\* builds no ContractABI; the failure is at the first entry that is refused,
\* which is the first entry of an unknown type, with the unknown-type error,
\* whenever all entries before that one are accepted, and an earlier entry
\* with its own error otherwise.
C16_UnknownEntryType ==
    (FromJsonDone /\ UnknownPositions(input) # {}) =>
        LET first == Min(UnknownPositions(input))
        IN  /\ phase = "abi_failed"
            /\ abi = None
            /\ outcome.kind = "ValueError"
            /\ outcome.at <= first
            /\ AcceptedBefore(input, outcome.at)
            /\ AcceptedBefore(input, first) <=> outcome.at = first
            /\ outcome.at = first =>
                  outcome.msg = "Unknown ABI entry type: " \o input[first].type

\* two valid entries followed by an entry of an unknown type
C16_Witness ==
    /\ phase = "abi_failed"
    /\ Len(input) = 3
    /\ UnknownPositions(input) = {3}
    /\ outcome.at = 3
    /\ outcome.msg = "Unknown ABI entry type: struct"
    /\ abi = None

(***************************************************************************)
(* Properties of the indexed set of an EventSignature                      *)
(***************************************************************************)
\* C17: for every Event that was built, the indexed set of its
\* EventSignature is a subset of the field names, so the number of
\* parameters that can be bound and matched to topics equals the size of the
\* indexed set that decode_log_entry compares the topic count against, and
\* the size of the indexed set that Event compares against the cap.
C17_IndexedSubset ==
    event # None =>
        /\ event[1].fields.indexed \subseteq Keys(event[1].fields.types)
        /\ Len(event[1].fields.signature) = Cardinality(event[1].fields.indexed)
        /\ Len(event[1].fields.signature) = Cardinality(event[1].indexed)

(***************************************************************************)
(* Properties of the result of EventSignature.decode_log_entry             *)
(***************************************************************************)
\* the fields the event was declared with, and those of them that are
\* indexed or not, in declaration order
DeclaredFields == input.decl.fields

DeclaredIndexed == SelectSeq(DeclaredFields, LAMBDA f : f[1] \in input.decl.indexed)

DeclaredNonIndexed == SelectSeq(DeclaredFields, LAMBDA f : f[1] \notin input.decl.indexed)

\* the value the result gives for a declared field
ResultOf(name) == Lookup(outcome.value, make_name_safe(name))

\* C18: when the topic count check passes and the decoding succeeds, the
\* result has exactly one key for each declared field, in declaration
\* order; the k-th indexed field has the topic decoding of the k-th topic
\* under its type, and the j-th non-indexed field has the j-th element of
\* the data section decoded as one tuple over the non-indexed types.
C18_DecodedMapping ==
    (phase = "decoded" /\ outcome.kind = "ok") =>
        /\ KeySeq(outcome.value) =
              [i \in DOMAIN DeclaredFields |-> make_name_safe(DeclaredFields[i][1])]
        /\ \A k \in DOMAIN DeclaredIndexed :
              ResultOf(DeclaredIndexed[k][1]) =
                  decode_from_topic(DeclaredIndexed[k][2], input.topics[k])
        /\ LET decoded == decode_args(Values(DeclaredNonIndexed), input.data)
           IN  /\ decoded.ok
               /\ \A j \in DOMAIN DeclaredNonIndexed :
                     ResultOf(DeclaredNonIndexed[j][1]) = Some(decoded.values[j])

(***************************************************************************)
(* Properties of the test RPC server                                       *)
(***************************************************************************)
\* the posted document is a request that parse_request accepts
ValidRequest ==
    LET data == input.body.data
    IN  /\ data.type = "object"
        /\ {"id", "method", "params"} \subseteq data.keys
        /\ data.method.type = "string"
        /\ data.params.type = "array"

\* C19: every POSTed request is answered by the handler with one response:
\* status 200 with the id of the request and the result of the provider
\* when the call succeeds; status 400 with a JSON-RPC error object when an
\* RPCError is raised, the invalid-request error without any call of the
\* provider when id, method or params is missing, method is no string or
\* params is no list; status 500 with the message of the exception for any
\* other exception; no exception leaves the handler.
C19_Responses ==
    phase = "request_handled" =>
        /\ outcome.kind = "response"
        /\ IF ~ValidRequest
           THEN /\ outcome.status = 400
                /\ outcome.json.keys = {"jsonrpc", "error"}
                /\ outcome.json.error = RPCError_invalid_request
                /\ trace = <<>>
           ELSE /\ Len(trace) = 1
                /\ input.provider.does = "returns" =>
                      /\ outcome.status = 200
                      /\ outcome.json.keys = {"jsonrpc", "id", "result"}
                      /\ outcome.json.id = input.body.data.id
                      /\ outcome.json.result = input.provider.result
                /\ input.provider.does = "raises_rpc" =>
                      /\ outcome.status = 400
                      /\ outcome.json.keys = {"jsonrpc", "error"}
                      /\ outcome.json.error = input.provider.error
                /\ input.provider.does = "raises" =>
                      /\ outcome.status = 500
                      /\ outcome.media = "text"
                      /\ outcome.text = input.provider.msg

(***************************************************************************)
(* Properties of the ServerHandle lifecycle                                *)
(***************************************************************************)
\* the shutdown trigger given to serve has returned
TriggerFired == handle.server \in {"stopping", "returned", "finished"}

\* await serve(...) has returned
ServeReturned == handle.server \in {"returned", "finished"}

\* the ordering of the lifecycle, in every reachable state
LifecycleOrder ==
    /\ TriggerFired => handle.caller # "idle"
    /\ handle.shutdown_finished => ServeReturned
    /\ handle.caller = "returned" => handle.shutdown_finished
    /\ handle.server = "not_started" => handle.caller # "returned"

\* C20: the shutdown trigger fires only after shutdown() was called, the
\* shutdown-finished event is set only after serve returned, and shutdown()
\* returns only after the shutdown-finished event is set; so shutdown()
\* called on a handle whose server task was started returns in the end, and
\* on a handle whose server task is never started it never returns.
C20_Lifecycle ==
    /\ []LifecycleOrder
    /\ (handle.caller = "waiting" /\ handle.server # "not_started")
           ~> (handle.caller = "returned")
    /\ []((handle.caller = "waiting" /\ handle.server = "not_started")
             => [](handle.server = "not_started" => handle.caller = "waiting"))

\* shutdown() has returned on a handle whose server served a request
C20_Witness ==
    /\ handle.caller = "returned"
    /\ handle.shutdown_finished
    /\ handle.server = "finished"
    /\ phase = "request_handled"
====
